---- MODULE Spec2Model ----
(***************************************************************************)
(* The progression state machine of Game (src/engine/game.ts): the         *)
(* progress cursor, the retry map, the screens and their click handlers,   *)
(* the alert / menu / about overlays, and the two asynchronous operations  *)
(* (progress persistence and session-content resolution).                  *)
(*                                                                         *)
(* Every event handler of the page runs to completion (JavaScript is       *)
(* single threaded), so each handler is one action.  A handler is written  *)
(* as an operator from the director's state record to the new record, so   *)
(* that handlers that call one another compose as the code does.           *)
(*                                                                         *)
(* Progress.scene may carry the fractional ".5" marker.  It is kept here   *)
(* in half units: the number x stands for the scene value x / 2.           *)
(***************************************************************************)
EXTENDS Integers, Sequences, FiniteSets, TLC

VARIABLES
    started,            \* start() has run
    game_progress,      \* this.game_progress: [session, level, scene (half units)]
    retry_count,        \* this.retry_count: a map from <<session, level, scene>>
    is_alert,           \* this.is_alert
    is_picking_session, \* this.is_picking_session
    is_showing_menu,    \* this.is_showing_menu
    game_content,       \* the indices i with game_content[i] defined
    screen,             \* what the renderer shows, with the closure of its handlers
    click_listener,     \* the renderer's global click listener ('finish-dialog')
    alert_listeners,    \* the click listeners on the alert's confirm button
    alert_display,      \* alert_modal.style.display is 'flex'
    alert_text,         \* the message the alert modal holds
    about_modals,       \* the number of about modals in the page
    menu_return,        \* the open menu offers "return to the session map"
    inflight,           \* persistence calls that have not returned
    resolving,          \* session indices whose parse_session has not returned
    threw,              \* the last handler ended in a TypeError
    event_list,         \* Game.event_list: the events not handled yet
    event_listeners,    \* Game.event_listeners: a map from event names to callbacks
    posted,             \* history: the event names given to Game.message, in order
    handled             \* history: the listener calls made by the event processor

vars ==
    << started, game_progress, retry_count, is_alert, is_picking_session,
       is_showing_menu, game_content, screen, click_listener, alert_listeners,
       alert_display, alert_text, about_modals, menu_return, inflight,
       resolving, threw, event_list, event_listeners, posted, handled >>

\* the static event queue of the class and its history
events == << event_list, event_listeners, posted, handled >>

\* the fields of the director instance
director ==
    << started, game_progress, retry_count, is_alert, is_picking_session,
       is_showing_menu, game_content, screen, click_listener, alert_listeners,
       alert_display, alert_text, about_modals, menu_return, inflight,
       resolving, threw >>

----------------------------------------------------------------------------
(* Bounds and program constants *)

\* persistence calls that may be in flight together
MaxInFlight == 1

\* content resolutions that may be in flight together
MaxResolving == 1

\* scenes at which the player gives a wrong answer on a first play
MaxRetryKeys == 1

retry_limit == 3

\* read_paper: seconds on a replay, on the current level; play_scene: first attempt, retry
ReplayReadTime == 20
FirstReadTime == 60
FirstAttemptTime == 10
RetryAttemptTime == 5

\* the forced review duration after the retry limit is exhausted
ForcedReadTime == 20

\* select_object draws this many slots
NumSlots == 9

\* read_time == null
NoReadTime == 0

----------------------------------------------------------------------------
(* The course the model plays: per session, the scene count of each level. *)
(* Session 0 has a one-scene level and a three-scene level, session 1 one  *)
(* level of one scene.                                                     *)

CourseScenes == << <<1, 3>>, <<1>> >>

\* course.sessions.length
NumSessions == Len(CourseScenes)

\* game_content[s].levels.length
LevelsLen(s) == Len(CourseScenes[s + 1])

\* game_content[s].levels[l].scenes.length
ScenesLen(s, l) == CourseScenes[s + 1][l + 1]

\* game_content[s].levels[l].correct
LevelCorrect(s, l) == {2, 5, 8}

----------------------------------------------------------------------------
(* Numbers in half units *)

\* Math.floor
Floor(x) == x \div 2

\* scene.toString().indexOf('.5') != -1
HasHalf(x) == x % 2 = 1

\* an integer scene index as a scene value
Whole(n) == 2 * n

\* Math.floor(scene_id) + 0.5
WithHalf(n) == 2 * n + 1

----------------------------------------------------------------------------
(* Records *)

\* the variables a play_scene invocation's closures share: the indices, which
\* the submit handler advances, and what is fixed at entry: is_replaying, the
\* scene object (named by the indices it was taken with), level.scenes.length
\* and session.levels.length
NoEnv ==
    [session_id |-> 0, level_id |-> 0, scene_id |-> 0, is_replaying |-> FALSE,
     scene |-> << >>, max_scene |-> 0, max_level |-> 0]

NoProgress == [session |-> 0, level |-> 0, scene |-> 0]

NoScreen ==
    [name |-> "none", env |-> NoEnv, time |-> 0, finished |-> FALSE,
     reached |-> FALSE, markers |-> {}, flashing |-> {},
     gp_live |-> TRUE, gp |-> NoProgress]

NoListener == [active |-> FALSE, env |-> NoEnv, time |-> 0, finished |-> FALSE]

\* a callback or a pending call; live: its closure is the one of the screen shown
NoCall ==
    [kind |-> "null", live |-> FALSE, env |-> NoEnv, retry |-> 0,
     index |-> << >>, progress |-> NoProgress]

NoText == [kind |-> "none", n |-> 0]

Text(k) == [kind |-> k, n |-> 0]

\* the director's state as one record
St ==
    [started |-> started, game_progress |-> game_progress,
     retry_count |-> retry_count, is_alert |-> is_alert,
     is_picking_session |-> is_picking_session,
     is_showing_menu |-> is_showing_menu, game_content |-> game_content,
     screen |-> screen, click_listener |-> click_listener,
     alert_listeners |-> alert_listeners, alert_display |-> alert_display,
     alert_text |-> alert_text, about_modals |-> about_modals,
     menu_return |-> menu_return, inflight |-> inflight,
     resolving |-> resolving, threw |-> FALSE]

SetState(st) ==
    /\ started' = st.started
    /\ game_progress' = st.game_progress
    /\ retry_count' = st.retry_count
    /\ is_alert' = st.is_alert
    /\ is_picking_session' = st.is_picking_session
    /\ is_showing_menu' = st.is_showing_menu
    /\ game_content' = st.game_content
    /\ screen' = st.screen
    /\ click_listener' = st.click_listener
    /\ alert_listeners' = st.alert_listeners
    /\ alert_display' = st.alert_display
    /\ alert_text' = st.alert_text
    /\ about_modals' = st.about_modals
    /\ menu_return' = st.menu_return
    /\ inflight' = st.inflight
    /\ resolving' = st.resolving
    /\ threw' = st.threw
    /\ UNCHANGED events

\* a TypeError leaves the handler at once
Throw(st) == [st EXCEPT !.threw = TRUE]

\* the closure a callback or a pending call reads
EnvOf(st, call) == IF call.live THEN st.screen.env ELSE call.env

\* a closure that is no longer the screen's keeps the values it had
Freeze(st, call) ==
    IF call.live THEN [call EXCEPT !.live = FALSE, !.env = st.screen.env] ELSE call

FreezeAll(st, calls) == [i \in 1..Len(calls) |-> Freeze(st, calls[i])]

\* renderer.draw(...) of a whole screen and renderer.render(): the former
\* screen's components, and with them their handlers, are gone
Show(st, scr) ==
    [st EXCEPT !.screen = scr,
               !.alert_listeners = FreezeAll(st, st.alert_listeners),
               !.inflight = FreezeAll(st, st.inflight)]

RemoveAt(seq, i) == SubSeq(seq, 1, i - 1) \o SubSeq(seq, i + 1, Len(seq))

----------------------------------------------------------------------------
(* Game's methods *)

\* a variant that locks the level the cursor is at
validate_progress_strict(gp, session_id, level_id) ==
    gp.session > session_id \/ (gp.session = session_id /\ gp.level > level_id)

validate_progress(gp, session_id, level_id) ==
    gp.session > session_id \/ (gp.session = session_id /\ gp.level >= level_id)

\* alert(msg, callback): nothing happens while is_alert is set
alert(st, msg, callback) ==
    IF ~st.is_alert
    THEN [st EXCEPT !.is_alert = TRUE,
                    !.alert_text = msg,
                    !.alert_display = TRUE,
                    !.alert_listeners = Append(@, callback)]
    ELSE st

\* a variant that leaves the cursor alone until the reply has come
update_progress_unassigned(st, progress, call) ==
    [st EXCEPT !.inflight = Append(@, [call EXCEPT !.progress = progress])]

\* update_progress(progress, layout): the cursor is assigned and the request
\* sent before the method returns; the promise resolves when the reply comes
update_progress(st, progress, call) ==
    [st EXCEPT !.game_progress = progress,
               !.inflight = Append(@, [call EXCEPT !.progress = progress])]

\* update_progress with a Progress object made by the caller: a handler that
\* holds the former object (select_object's) keeps reading that one
Detach(st) ==
    IF st.screen.name = "select_object" /\ st.screen.gp_live
    THEN [st EXCEPT !.screen.gp_live = FALSE, !.screen.gp = st.game_progress]
    ELSE st

pick_session(st) ==
    Show([st EXCEPT !.is_picking_session = TRUE, !.click_listener = NoListener],
         [NoScreen EXCEPT
             !.name = "pick_session",
             !.markers = {i \in 0..(NumSessions - 1) : i <= st.game_progress.session}])

pick_level(st, session_id) ==
    LET s1 == [st EXCEPT !.is_picking_session = FALSE]
        gp == s1.game_progress
        progress ==
            IF gp.session > session_id THEN LevelsLen(session_id) ELSE gp.level
    IN  IF session_id > gp.session THEN s1
        ELSE IF session_id \notin s1.game_content THEN Throw(s1)
        ELSE IF progress > LevelsLen(session_id) THEN Throw(s1)
        ELSE Show(s1,
                  [NoScreen EXCEPT
                      !.name = "pick_level",
                      !.env = [NoEnv EXCEPT !.session_id = session_id],
                      !.markers =
                          (0..(progress - 1)) \cup
                          (IF progress # LevelsLen(session_id) THEN {progress} ELSE {}),
                      !.flashing =
                          IF progress # LevelsLen(session_id) THEN {progress} ELSE {}])

\* a session and a level the content holds
HasLevel(st, session_id, level_id) ==
    /\ session_id \in st.game_content
    /\ level_id < LevelsLen(session_id)

OverflowCall == [NoCall EXCEPT !.kind = "overflow"]

\* a variant that gives a replay the time of a first reading
ReadTimeAlwaysFirst(gp, session_id, level_id, read_time) ==
    IF read_time = NoReadTime THEN FirstReadTime ELSE read_time

\* the seconds of read_paper's timer, from the cursor as it is after the
\* overflow branch
ReadTime(gp, session_id, level_id, read_time) ==
    IF read_time = NoReadTime
    THEN (IF gp.session > session_id \/ gp.level > level_id
          THEN ReplayReadTime ELSE FirstReadTime)
    ELSE read_time

read_paper(st, session_id, level_id, read_time) ==
    LET s1 == [st EXCEPT !.is_picking_session = FALSE]
        gp == s1.game_progress
    IN  IF ~validate_progress(gp, session_id, level_id) THEN s1
        ELSE IF ~HasLevel(s1, session_id, level_id) THEN Throw(s1)
        ELSE
          LET max_scene == ScenesLen(session_id, level_id)
              max_level == LevelsLen(session_id)
              overflow == gp.scene >= Whole(max_scene)
              wrap == overflow /\ level_id + 1 >= max_level
              level2 == IF ~overflow THEN level_id
                        ELSE IF wrap THEN 0 ELSE level_id + 1
              session2 == IF wrap THEN session_id + 1 ELSE session_id
              s2 == IF overflow
                    THEN update_progress(
                             s1,
                             [session |-> session2, level |-> level2, scene |-> 0],
                             OverflowCall)
                    ELSE s1
              gp2 == s2.game_progress
              time == ReadTime(gp2, session2, level2, read_time)
          IN  IF ~HasLevel(s2, session2, level2) THEN Throw(s2)
              ELSE Show(s2,
                        [NoScreen EXCEPT
                            !.name = "read_paper",
                            !.env = [NoEnv EXCEPT !.session_id = session2,
                                                  !.level_id = level2],
                            !.time = time])

SelectCall(session_id, level_id) ==
    [NoCall EXCEPT !.kind = "select_object",
                   !.env = [NoEnv EXCEPT !.session_id = session_id,
                                         !.level_id = level_id]]

PromptCall(session_id, level_id) ==
    [NoCall EXCEPT !.kind = "prompt",
                   !.env = [NoEnv EXCEPT !.session_id = session_id,
                                         !.level_id = level_id]]

prompt_object_selection(st, session_id, level_id) ==
    LET s1 == [st EXCEPT !.is_picking_session = FALSE]
    IN  IF ~validate_progress(s1.game_progress, session_id, level_id) THEN s1
        ELSE IF ~HasLevel(s1, session_id, level_id) THEN Throw(s1)
        ELSE alert(Show(s1,
                        [NoScreen EXCEPT
                            !.name = "prompt",
                            !.env = [NoEnv EXCEPT !.session_id = session_id,
                                                  !.level_id = level_id]]),
                   Text("prompt"),
                   SelectCall(session_id, level_id))

select_object(st, session_id, level_id) ==
    LET s1 == [st EXCEPT !.is_picking_session = FALSE]
    IN  IF ~validate_progress(s1.game_progress, session_id, level_id) THEN s1
        ELSE IF ~HasLevel(s1, session_id, level_id) THEN Throw(s1)
        ELSE Show(s1,
                  [NoScreen EXCEPT
                      !.name = "select_object",
                      !.env = [NoEnv EXCEPT !.session_id = session_id,
                                            !.level_id = level_id]])

\* scene_id is a scene value in half units
play_scene(st, session_id, level_id, scene_id) ==
    LET s1 == [st EXCEPT !.is_picking_session = FALSE]
        gp == s1.game_progress
        scene == Floor(scene_id)
        is_replaying == gp.session > session_id \/ gp.level > level_id
        first_attempt == ~is_replaying /\ ~HasHalf(gp.scene)
        env == [session_id |-> session_id, level_id |-> level_id,
                scene_id |-> scene, is_replaying |-> is_replaying,
                scene |-> << session_id, level_id, scene >>,
                max_scene |-> ScenesLen(session_id, level_id),
                max_level |-> LevelsLen(session_id)]
        time == IF is_replaying THEN 0
                ELSE IF first_attempt THEN FirstAttemptTime ELSE RetryAttemptTime
    IN  IF ~validate_progress(gp, session_id, level_id) THEN s1
        ELSE IF ~HasLevel(s1, session_id, level_id) THEN Throw(s1)
        ELSE IF scene >= ScenesLen(session_id, level_id) THEN Throw(s1)
        ELSE Show([s1 EXCEPT !.click_listener =
                                 [active |-> TRUE, env |-> env, time |-> time,
                                  finished |-> FALSE]],
                  [NoScreen EXCEPT !.name = "play_scene", !.env = env, !.time = time])

\* a variant that routes on the indices alone, whatever value was returned
RouteIgnoringValue(st, env, value) ==
    IF env.level_id = 0 /\ env.scene_id = 0 THEN pick_session(st)
    ELSE IF env.scene_id = 0 THEN pick_level(st, env.session_id)
    ELSE play_scene(st, env.session_id, env.level_id, Whole(env.scene_id))

\* promise.then of the correct branch
Route(st, env, value) ==
    IF value # 0 /\ env.level_id = 0 /\ env.scene_id = 0 THEN pick_session(st)
    ELSE IF env.scene_id = 0 THEN pick_level(st, env.session_id)
    ELSE play_scene(st, env.session_id, env.level_id, Whole(env.scene_id))

\* menu()
menu(st) ==
    IF ~st.is_alert /\ ~st.is_showing_menu
    THEN [st EXCEPT !.is_showing_menu = TRUE, !.menu_return = ~st.is_picking_session]
    ELSE IF st.is_showing_menu
    THEN [st EXCEPT !.is_showing_menu = FALSE, !.menu_return = FALSE]
    ELSE st

\* about()
about(st) == [st EXCEPT !.is_alert = TRUE, !.about_modals = @ + 1]

----------------------------------------------------------------------------
(* Callbacks *)

CommitCall(live) == [NoCall EXCEPT !.kind = "commit", !.live = live]

\* a variant that persists the closure's indices on a replay as well
commit_always(st, call) ==
    LET env == EnvOf(st, call)
    IN  update_progress(
            Detach(st),
            [session |-> env.session_id, level |-> env.level_id,
             scene |-> Whole(env.scene_id)],
            [call EXCEPT !.kind = "commit"])

\* the callback of the correct branch's alert: commit unless replaying, then route
commit(st, call) ==
    LET env == EnvOf(st, call)
    IN  IF ~env.is_replaying
        THEN update_progress(
                 Detach(st),
                 [session |-> env.session_id, level |-> env.level_id,
                  scene |-> Whole(env.scene_id)],
                 [call EXCEPT !.kind = "commit"])
        ELSE Route(st, env, 1)

\* a variant whose read_paper callback passes no read time
RunCallbackUnforced(st, call) ==
    LET env == EnvOf(st, call)
    IN  CASE call.kind = "null" -> st
          [] call.kind = "select_object" ->
                select_object(st, env.session_id, env.level_id)
          [] call.kind = "prompt" ->
                prompt_object_selection(st, env.session_id, env.level_id)
          [] call.kind = "commit" -> commit(st, call)
          [] call.kind = "play_scene" ->
                play_scene(st, env.session_id, env.level_id, Whole(env.scene_id))
          [] call.kind = "read_paper" ->
                read_paper(st, env.session_id, env.level_id, NoReadTime)

\* callback()
RunCallback(st, call) ==
    LET env == EnvOf(st, call)
    IN  CASE call.kind = "null" -> st
          [] call.kind = "select_object" ->
                select_object(st, env.session_id, env.level_id)
          [] call.kind = "prompt" ->
                prompt_object_selection(st, env.session_id, env.level_id)
          [] call.kind = "commit" -> commit(st, call)
          [] call.kind = "play_scene" ->
                play_scene(st, env.session_id, env.level_id, Whole(env.scene_id))
          [] call.kind = "read_paper" ->
                read_paper(st, env.session_id, env.level_id, ForcedReadTime)

\* modal_callback: hide the modal, clear is_alert, then run the callback
modal_callback(st, call) ==
    RunCallback([st EXCEPT !.alert_display = FALSE, !.is_alert = FALSE,
                           !.alert_text = NoText],
                call)

\* a click on the confirm button runs the listeners registered before the click,
\* in order; each is registered with {once: true}
RECURSIVE RunListeners(_, _)
RunListeners(st, n) ==
    IF n = 0 THEN st
    ELSE RunListeners(
             modal_callback([st EXCEPT !.alert_listeners = Tail(@)],
                            Head(st.alert_listeners)),
             n - 1)

\* a variant that leaves the session once the level's scenes are done
AdvanceNoLevelStep(env) ==
    LET scene1 == env.scene_id + 1
        over == scene1 >= env.max_scene
    IN  [env EXCEPT
            !.scene_id = IF over THEN 0 ELSE scene1,
            !.level_id = IF over THEN 0 ELSE @,
            !.session_id = IF over THEN @ + 1 ELSE @]

\* the submit button's onclick, correct branch: the closure's indices advance
Advance(env) ==
    LET scene1 == env.scene_id + 1
        over == scene1 >= env.max_scene
        wrap == over /\ env.level_id + 1 >= env.max_level
    IN  [env EXCEPT
            !.scene_id = IF over THEN 0 ELSE scene1,
            !.level_id = IF ~over THEN @ ELSE IF wrap THEN 0 ELSE @ + 1,
            !.session_id = IF wrap THEN @ + 1 ELSE @]

\* a variant that never announces the end of a chapter
CongratsTextNoChapter(env) ==
    IF env.scene_id = 0 THEN Text("level_complete")
    ELSE Text("scene_complete")

\* alert_text of the correct branch
CongratsText(env) ==
    IF env.level_id = 0 /\ env.scene_id = 0 THEN Text("chapter_complete")
    ELSE IF env.scene_id = 0 THEN Text("level_complete")
    ELSE Text("scene_complete")

SubmitCorrect(st) ==
    LET env == Advance(st.screen.env)
    IN  alert([st EXCEPT !.screen.env = env], CongratsText(env), CommitCall(TRUE))

\* the retry count the handler reads: the map's entry, made 0 when there is none
RetryRead(st, index) ==
    IF index \in DOMAIN st.retry_count THEN st.retry_count[index] ELSE 0

\* a variant that treats a replay as a first play
SubmitIncorrectCounting(st) ==
    LET env == st.screen.env
        index == << env.session_id, env.level_id, env.scene_id >>
    IN  update_progress(
            Detach([st EXCEPT !.retry_count =
                        IF index \in DOMAIN @ THEN @ ELSE (index :> 0) @@ @]),
            [session |-> env.session_id, level |-> env.level_id,
             scene |-> WithHalf(env.scene_id)],
            [NoCall EXCEPT !.kind = "fail", !.live = TRUE,
                           !.retry = RetryRead(st, index), !.index = index])

SubmitIncorrect(st) ==
    LET env == st.screen.env
        index == << env.session_id, env.level_id, env.scene_id >>
    IN  IF env.is_replaying
        THEN alert(st, Text("wrong_replay"),
                   [NoCall EXCEPT !.kind = "play_scene", !.live = TRUE])
        ELSE update_progress(
                 Detach([st EXCEPT !.retry_count =
                             IF index \in DOMAIN @ THEN @ ELSE (index :> 0) @@ @]),
                 [session |-> env.session_id, level |-> env.level_id,
                  scene |-> WithHalf(env.scene_id)],
                 [NoCall EXCEPT !.kind = "fail", !.live = TRUE,
                                !.retry = RetryRead(st, index), !.index = index])

\* a variant that never starts the count again
NextRetryNoReset(retry) == retry + 1

\* the count update_progress(...).then stores for a failure
NextRetry(retry) == IF retry + 1 < retry_limit THEN retry + 1 ELSE 0

\* update_progress(progress, layout).then of the incorrect branch
FailDone(st, call) ==
    LET retry == call.retry + 1
        s1 == [st EXCEPT !.retry_count[call.index] = NextRetry(call.retry)]
    IN  IF retry < retry_limit
        THEN alert(s1, [kind |-> "attempts_left", n |-> retry_limit - retry],
                   [NoCall EXCEPT !.kind = "play_scene", !.live = call.live,
                                  !.env = call.env])
        ELSE alert(s1, Text("back_to_paper"),
                   [NoCall EXCEPT !.kind = "read_paper", !.live = call.live,
                                  !.env = call.env])

\* the reply to a persistence call, Number(data) being value
Reply(st, call, value) ==
    CASE call.kind = "overflow" -> st
      [] call.kind = "commit" -> Route(st, EnvOf(st, call), value)
      [] call.kind = "fail" -> FailDone(st, call)

\* a variant that only looks for selected objects that are wrong
SelectionCorrectNoMissing(selected, correct_answer) ==
    \A i \in 0..(NumSlots - 1) :
        ~ (i \in selected /\ i \notin correct_answer)

\* select_object's confirm button: the loop over the slots
SelectionCorrect(selected, correct_answer) ==
    \A i \in 0..(NumSlots - 1) :
        ~ \/ (i \in selected /\ i \notin correct_answer)
          \/ (i \notin selected /\ i \in correct_answer)

\* the Progress object select_object's handler holds
HeldProgress(st) == IF st.screen.gp_live THEN st.game_progress ELSE st.screen.gp

\* a variant that sends the cursor when the selection is wrong
SelectConfirmPersisting(st, selected) ==
    LET env == st.screen.env
        gp == HeldProgress(st)
        scene_id == IF gp.session > env.session_id \/ gp.level > env.level_id
                    THEN 0 ELSE gp.scene
    IN  IF SelectionCorrect(selected, LevelCorrect(env.session_id, env.level_id))
        THEN play_scene(st, env.session_id, env.level_id, scene_id)
        ELSE update_progress(
                 alert(st, Text("wrong_selection"),
                       PromptCall(env.session_id, env.level_id)),
                 st.game_progress, OverflowCall)

SelectConfirm(st, selected) ==
    LET env == st.screen.env
        gp == HeldProgress(st)
        scene_id == IF gp.session > env.session_id \/ gp.level > env.level_id
                    THEN 0 ELSE gp.scene
    IN  IF SelectionCorrect(selected, LevelCorrect(env.session_id, env.level_id))
        THEN play_scene(st, env.session_id, env.level_id, scene_id)
        ELSE alert(st, Text("wrong_selection"),
                   PromptCall(env.session_id, env.level_id))

\* a variant that does not wait for the timer
ReadConfirmNoTimer(st) ==
    IF ~st.screen.reached THEN alert(st, Text("read_to_the_end"), NoCall)
    ELSE prompt_object_selection(st, st.screen.env.session_id, st.screen.env.level_id)

\* read_paper's confirm button
ReadConfirm(st) ==
    IF ~st.screen.reached THEN alert(st, Text("read_to_the_end"), NoCall)
    ELSE IF ~st.screen.finished
    THEN alert(st, [kind |-> "read_longer", n |-> st.screen.time], NoCall)
    ELSE prompt_object_selection(st, st.screen.env.session_id, st.screen.env.level_id)

\* a variant that reveals the submit button at any click
RevealUngated(st) ==
    LET l == st.click_listener
    IN  Show([st EXCEPT !.click_listener = NoListener],
             [NoScreen EXCEPT !.name = "post_answer", !.env = l.env,
                              !.time = l.time, !.finished = l.finished])

\* the global click listener play_scene registers
Reveal(st) ==
    LET l == st.click_listener
    IN  IF l.env.is_replaying \/ (l.time # 0 /\ l.finished)
        THEN Show([st EXCEPT !.click_listener = NoListener],
                  [NoScreen EXCEPT !.name = "post_answer", !.env = l.env,
                                   !.time = l.time, !.finished = l.finished])
        ELSE st

\* the selections the player confirms: the right one, one object short, one
\* object too many, none
Selections == {{2, 5, 8}, {2, 5}, {0, 2, 5, 8}, {}}

\* the closure's indices name a scene of the course: the player submits no
\* further answer on a screen whose closure has left the course
OnCourse(env) ==
    /\ env.session_id < NumSessions
    /\ env.level_id < LevelsLen(env.session_id)
    /\ env.scene_id < ScenesLen(env.session_id, env.level_id)

\* the bound on the scenes the player fails at
MayFail(st) ==
    LET env == st.screen.env
    IN  \/ << env.session_id, env.level_id, env.scene_id >> \in DOMAIN st.retry_count
        \/ Cardinality(DOMAIN st.retry_count) < MaxRetryKeys

\* an overlay lies over the canvas
Blocked == alert_display \/ about_modals > 0 \/ is_showing_menu

----------------------------------------------------------------------------
(* Actions: one per event *)

Init ==
    /\ started = FALSE
    /\ game_progress = [session |-> 0, level |-> 0, scene |-> 0]
    /\ retry_count = << >>
    /\ is_alert = FALSE
    /\ is_picking_session = FALSE
    /\ is_showing_menu = FALSE
    /\ game_content = {}
    /\ screen = NoScreen
    /\ click_listener = NoListener
    /\ alert_listeners = << >>
    /\ alert_display = FALSE
    /\ alert_text = NoText
    /\ about_modals = 0
    /\ menu_return = FALSE
    /\ inflight = << >>
    /\ resolving = << >>
    /\ threw = FALSE
    /\ event_list = << >>
    /\ event_listeners = << >>
    /\ posted = << >>
    /\ handled = << >>

\* a handler's result, within the bound on the calls in flight
Becomes(st) ==
    /\ Len(st.inflight) > Len(inflight) =>
          /\ Len(st.inflight) <= MaxInFlight
          /\ \A j \in 1..Len(inflight) : inflight[j].live
    /\ SetState(st)

\* start()
Start ==
    /\ ~started
    /\ Becomes(pick_session([St EXCEPT !.started = TRUE]))

\* a variant that fetches the content at every click
SessionMarkerClickNoCache(st, i) == [st EXCEPT !.resolving = Append(@, i)]

\* marker.onclick of pick_session, up to its await
SessionMarkerClick(st, i) ==
    IF i \notin st.game_content
    THEN [st EXCEPT !.resolving = Append(@, i)]
    ELSE pick_level(st, i)

\* marker.onclick of pick_session: the content is awaited when it is not cached
ClickSessionMarker ==
    \E i \in 0..(NumSessions - 1) :
        /\ screen.name = "pick_session" /\ ~Blocked
        /\ i \in screen.markers
        /\ i \notin game_content => Len(resolving) < MaxResolving
        /\ Becomes(SessionMarkerClick(St, i))

\* Game.parse_session returns
ResolveDone ==
    \E j \in 1..Len(resolving) :
        Becomes(pick_level([St EXCEPT !.game_content = @ \cup {resolving[j]},
                                      !.resolving = RemoveAt(@, j)],
                           resolving[j]))

\* marker.onclick of pick_level
ClickLevelMarker ==
    \E i \in screen.markers :
        /\ screen.name = "pick_level" /\ ~Blocked
        /\ Becomes(read_paper(St, screen.env.session_id, i, NoReadTime))

\* the reader is scrolled to the bottom
ReachBottom ==
    /\ screen.name = "read_paper" /\ ~Blocked /\ ~screen.reached
    /\ Becomes([St EXCEPT !.screen.reached = TRUE])

\* the reading timer runs out
ReadTimerFinish ==
    /\ screen.name = "read_paper" /\ ~screen.finished
    /\ Becomes([St EXCEPT !.screen.finished = TRUE])

ClickReadConfirm ==
    /\ screen.name = "read_paper" /\ ~Blocked
    /\ Becomes(ReadConfirm(St))

ClickSelectConfirm ==
    \E selected \in Selections :
        /\ screen.name = "select_object" /\ ~Blocked
        /\ Becomes(SelectConfirm(St, selected))

\* the attempt timer runs out
SceneTimerFinish ==
    /\ click_listener.active /\ click_listener.time # 0 /\ ~click_listener.finished
    /\ Becomes([St EXCEPT !.click_listener.finished = TRUE])

\* a click on the canvas reaches the global listener
GlobalClick ==
    /\ click_listener.active /\ ~Blocked
    /\ Becomes(Reveal(St))

\* prompt_button.onclick
ClickQuestion ==
    /\ screen.name = "post_answer" /\ ~Blocked
    /\ Becomes(alert(St, Text("question"), NoCall))

\* button.onclick of the revealed scene; correct is scene.correct_func(layout)
ClickSubmit ==
    \E correct \in BOOLEAN :
        /\ screen.name = "post_answer" /\ ~Blocked
        /\ OnCourse(screen.env)
        /\ correct \/ screen.env.is_replaying \/ MayFail(St)
        /\ Becomes(IF correct THEN SubmitCorrect(St) ELSE SubmitIncorrect(St))

ConfirmAlert ==
    /\ alert_display
    /\ Becomes(RunListeners(St, Len(alert_listeners)))

\* the server's reply to a persistence call: 0, or a sequence number
PersistDone ==
    \E j \in 1..Len(inflight), value \in {0, 1} :
        Becomes(Reply([St EXCEPT !.inflight = RemoveAt(@, j)], inflight[j], value))

\* keyup with key Escape
KeyEscape == Becomes(menu(St))

MenuReturn ==
    /\ is_showing_menu /\ menu_return
    /\ Becomes(pick_session([St EXCEPT !.is_showing_menu = FALSE,
                                       !.menu_return = FALSE]))

MenuClose ==
    /\ is_showing_menu
    /\ Becomes([St EXCEPT !.is_showing_menu = FALSE, !.menu_return = FALSE])

MenuAbout ==
    /\ is_showing_menu
    /\ Becomes(about([St EXCEPT !.is_showing_menu = FALSE, !.menu_return = FALSE]))

\* close_btn of an about modal
AboutClose ==
    /\ about_modals > 0
    /\ Becomes([St EXCEPT !.about_modals = @ - 1, !.is_alert = FALSE])

Next ==
    \/ Start
    \/ ClickSessionMarker
    \/ ResolveDone
    \/ ClickLevelMarker
    \/ ReachBottom
    \/ ReadTimerFinish
    \/ ClickReadConfirm
    \/ ClickSelectConfirm
    \/ SceneTimerFinish
    \/ GlobalClick
    \/ ClickQuestion
    \/ ClickSubmit
    \/ ConfirmAlert
    \/ PersistDone
    \/ KeyEscape
    \/ MenuReturn
    \/ MenuClose
    \/ MenuAbout
    \/ AboutClose

Spec == Init /\ [][Next]_vars

\* the calls in flight when the player acts again on a scene screen whose
\* call has not been answered yet
MaxOverlap == 2

\* button.onclick once more, with a wrong answer, while the call of the
\* former click on this screen is in flight
SubmitAgain ==
    /\ screen.name = "post_answer" /\ ~Blocked
    /\ ~screen.env.is_replaying
    /\ OnCourse(screen.env) /\ MayFail(St)
    /\ Len(inflight) >= 1 /\ Len(inflight) < MaxOverlap
    /\ \A j \in 1..Len(inflight) : inflight[j].live
    /\ SetState(SubmitIncorrect(St))

\* the alert of a further correct submit is confirmed while the commit of
\* the former one on this screen is in flight
CommitAgain ==
    /\ alert_display
    /\ alert_listeners = << CommitCall(TRUE) >>
    /\ ~screen.env.is_replaying
    /\ Len(inflight) >= 1 /\ Len(inflight) < MaxOverlap
    /\ \A j \in 1..Len(inflight) : inflight[j].live
    /\ SetState(RunListeners(St, 1))

NextOverlap == Next \/ SubmitAgain \/ CommitAgain

\* the director with a player who clicks submit again before the reply
SpecOverlap == Init /\ [][NextOverlap]_vars

\* marker.onclick of pick_session, on the marker of the cursor's session
ForwardSessionClick ==
    /\ screen.name = "pick_session" /\ ~Blocked
    /\ game_progress.session \in screen.markers
    /\ game_progress.session \notin game_content => Len(resolving) < MaxResolving
    /\ Becomes(SessionMarkerClick(St, game_progress.session))

\* marker.onclick of pick_level, on the marker of the cursor's level
ForwardLevelClick ==
    /\ screen.name = "pick_level" /\ ~Blocked
    /\ game_progress.level \in screen.markers
    /\ Becomes(read_paper(St, screen.env.session_id, game_progress.level, NoReadTime))

\* select_object's confirm button with the level's objects selected
CorrectSelect ==
    /\ screen.name = "select_object" /\ ~Blocked
    /\ Becomes(SelectConfirm(St, LevelCorrect(screen.env.session_id,
                                              screen.env.level_id)))

\* button.onclick of the revealed scene with scene.correct_func(layout) true;
\* this player waits for the reply before clicking again
CorrectAnswer ==
    /\ screen.name = "post_answer" /\ ~Blocked
    /\ OnCourse(screen.env)
    /\ Len(inflight) = 0
    /\ Becomes(SubmitCorrect(St))

\* the events of a player who goes for the flashing markers and answers
\* correctly, and who may look at the question, the menu and the about page
NextForward ==
    \/ Start
    \/ ForwardSessionClick
    \/ ResolveDone
    \/ ForwardLevelClick
    \/ ReachBottom
    \/ ReadTimerFinish
    \/ ClickReadConfirm
    \/ CorrectSelect
    \/ SceneTimerFinish
    \/ GlobalClick
    \/ ClickQuestion
    \/ CorrectAnswer
    \/ ConfirmAlert
    \/ PersistDone
    \/ KeyEscape
    \/ MenuClose
    \/ MenuAbout
    \/ AboutClose

\* timers run out, persistence calls and content resolutions return (weak
\* fairness: nothing the player does disables them); the player keeps taking
\* every step forward that is possible again and again (strong fairness: an
\* overlay the player opens disables the canvas in between)
FairForward ==
    /\ WF_vars(ResolveDone)
    /\ WF_vars(ReadTimerFinish)
    /\ WF_vars(SceneTimerFinish)
    /\ WF_vars(PersistDone)
    /\ SF_vars(Start)
    /\ SF_vars(ForwardSessionClick)
    /\ SF_vars(ForwardLevelClick)
    /\ SF_vars(ReachBottom)
    /\ SF_vars(ClickReadConfirm)
    /\ SF_vars(CorrectSelect)
    /\ SF_vars(GlobalClick)
    /\ SF_vars(CorrectAnswer)
    /\ SF_vars(ConfirmAlert)
    /\ SF_vars(MenuClose)
    /\ SF_vars(AboutClose)

\* the director with a player who goes forward, under fairness
SpecForward == Init /\ [][NextForward]_vars /\ FairForward

-----------------------------------------------------------------------------
(* The event queue of the class *)

\* the event names the clients use
EventNames == {"a", "b"}

\* what a callback given to Game.on does when it is called: nothing, a call of
\* Game.message, or a call of Game.on
Callbacks == {"nothing", "post_a", "post_b", "on_b"}

\* the param of an event a client posts, and of one a listener posts
ClientParam == 0
ListenerParam == 1

\* the events given to Game.message over a run
MaxPosted == 3

\* the queue's state as one record
EvState ==
    [event_list |-> event_list, event_listeners |-> event_listeners,
     posted |-> posted, handled |-> handled]

SetEvents(ev) ==
    /\ event_list' = ev.event_list
    /\ event_listeners' = ev.event_listeners
    /\ posted' = ev.posted
    /\ handled' = ev.handled
    /\ UNCHANGED director

\* Game.message: the entry is pushed at the end; id names the entry
message(ev, msg, param) ==
    [ev EXCEPT
        !.event_list = Append(@, [event |-> msg, param |-> param,
                                  id |-> Len(ev.posted) + 1]),
        !.posted = Append(@, [event |-> msg, param |-> param])]

\* Game.on: Map.set in both branches
on(ev, event, callback) ==
    [ev EXCEPT
        !.event_listeners =
            [n \in (DOMAIN ev.event_listeners) \cup {event} |->
                IF n = event THEN callback ELSE ev.event_listeners[n]]]

\* this.event_listeners.get(call.event)(call.param)
CallListener(ev, callback, call) ==
    LET logged == [ev EXCEPT !.handled = Append(@, [id |-> call.id, by |-> callback])]
    IN  CASE callback = "nothing" -> logged
          [] callback = "post_a" -> message(logged, "a", ListenerParam)
          [] callback = "post_b" -> message(logged, "b", ListenerParam)
          [] callback = "on_b" -> on(logged, "b", "nothing")

\* for (let call of this.event_list), from the k-th entry on: the iterator
\* reads the array's length at every step; the loop is cut where the
\* listeners post more than the bound
RECURSIVE ProcessFrom(_, _)
ProcessFrom(ev, k) ==
    IF k > Len(ev.event_list) \/ Len(ev.posted) > MaxPosted THEN ev
    ELSE LET call == ev.event_list[k]
         IN  ProcessFrom(IF call.event \in DOMAIN ev.event_listeners
                         THEN CallListener(ev, ev.event_listeners[call.event], call)
                         ELSE ev,
                         k + 1)

\* the loop over the entries the list holds when the pass begins
RECURSIVE ProcessUpTo(_, _, _)
ProcessUpTo(ev, k, n) ==
    IF k > n \/ Len(ev.posted) > MaxPosted THEN ev
    ELSE LET call == ev.event_list[k]
         IN  ProcessUpTo(IF call.event \in DOMAIN ev.event_listeners
                         THEN CallListener(ev, ev.event_listeners[call.event], call)
                         ELSE ev,
                         k + 1, n)

\* a variant that walks a copy of the list taken when the pass begins
event_processor_snapshot(ev) ==
    [ProcessUpTo(ev, 1, Len(ev.event_list)) EXCEPT !.event_list = << >>]

\* the callback of Game.event_processor's interval
event_processor(ev) ==
    [ProcessFrom(ev, 1) EXCEPT !.event_list = << >>]

\* a client calls Game.message
Post ==
    \E msg \in EventNames :
        /\ Len(posted) < MaxPosted
        /\ SetEvents(message(EvState, msg, ClientParam))

\* a client calls Game.on
Register ==
    \E event \in EventNames, callback \in Callbacks :
        SetEvents(on(EvState, event, callback))

\* the interval fires: one processing pass
ProcessPass ==
    /\ Len(ProcessFrom(EvState, 1).posted) <= MaxPosted
    /\ SetEvents(event_processor(EvState))

NextEvents == Post \/ Register \/ ProcessPass

\* the event queue with its clients
SpecEvents == Init /\ [][NextEvents]_vars

----------------------------------------------------------------------------
(* Properties *)

\* the session and level indices a request may carry
SessionIds == 0..NumSessions
LevelIds == 0..LevelsLen(0)

\* the cursor a is not after the cursor b
LexLeq(a, b) ==
    \/ a.session < b.session
    \/ a.session = b.session /\ a.level < b.level
    \/ a.session = b.session /\ a.level = b.level /\ a.scene <= b.scene

\* C1: for every cursor the game reaches and every (session_id, level_id),
\* validate_progress is true exactly when the cursor's session is greater, or
\* is the same with the cursor's level at least level_id.
C1_ValidateProgress ==
    \A s \in SessionIds, l \in LevelIds :
        validate_progress(game_progress, s, l) <=>
            \/ game_progress.session > s
            \/ game_progress.session = s /\ game_progress.level >= l

\* a level of a finished session is read again: the request passed the
\* validation by the session alone
C1_Witness ==
    /\ screen.name = "read_paper"
    /\ screen.env.session_id < game_progress.session
    /\ ~validate_progress(game_progress, NumSessions, 0)

\* C2: no step replaces the cursor by a lexicographically smaller one.
C2_CursorNeverRegresses == [][LexLeq(game_progress, game_progress')]_vars

\* C3: a request the validation rejects changes nothing: for every (s, l) that
\* validate_progress refuses, read_paper, prompt_object_selection,
\* select_object and play_scene leave the director's state as it was, and so
\* does pick_level for a session after the cursor's.
C3_RejectedCallIsNoOp ==
    \A s \in SessionIds, l \in LevelIds :
        /\ ~validate_progress(game_progress, s, l) =>
              /\ read_paper(St, s, l, NoReadTime) = St
              /\ prompt_object_selection(St, s, l) = St
              /\ select_object(St, s, l) = St
              /\ play_scene(St, s, l, 0) = St
        /\ s > game_progress.session => pick_level(St, s) = St

\* the (session, level, scene) indices of a closure
Key(env) == << env.session_id, env.level_id, env.scene_id >>

\* the step is a wrong answer submitted on a first play
IncorrectSubmit ==
    /\ screen.name = "post_answer" /\ ~Blocked
    /\ ~screen.env.is_replaying
    /\ SetState(SubmitIncorrect(St))

\* the step is the reply to the persistence call j of a wrong answer
FailReply(j) ==
    /\ inflight[j].kind = "fail"
    /\ SetState(Reply([St EXCEPT !.inflight = RemoveAt(@, j)], inflight[j], 0))

\* the step is a click on the alert's confirm button, one callback registered
Confirm ==
    /\ alert_display /\ Len(alert_listeners) = 1
    /\ SetState(RunListeners(St, 1))

CorrectCommit ==
    /\ Confirm
    /\ alert_listeners[1].kind = "commit"
    /\ ~EnvOf(St, alert_listeners[1]).is_replaying

\* C5: when a correct non-replay answer at a scene is committed, the retry
\* counter of that scene's key is 0.
C5_CounterZeroAfterSuccess ==
    [][CorrectCommit =>
          LET key == EnvOf(St, alert_listeners[1]).scene
          IN  key \in DOMAIN retry_count' => retry_count'[key] = 0
      ]_vars

\* the closure a callback registered in this step reads in the next state
EnvNext(cb) == IF cb.live THEN screen'.env ELSE cb.env

Calls(q) == [j \in 1..Len(q) |-> << q[j].kind, q[j].progress >>]

\* C7: the .5 marker comes onto the cursor only by an incorrect non-replay
\* submit, which sets the cursor to (session, level, N + 0.5) and persists
\* it, and leaves the cursor only by the commit of a correct non-replay
\* submit.
C7_MarkerFollowsLastSubmit ==
    [][/\ IncorrectSubmit =>
             LET env == screen.env
                 progress == [session |-> env.session_id, level |-> env.level_id,
                              scene |-> WithHalf(env.scene_id)]
             IN  /\ game_progress' = progress
                 /\ Len(inflight') = Len(inflight) + 1
                 /\ inflight'[Len(inflight')].progress = progress
       /\ (~HasHalf(game_progress.scene) /\ HasHalf(game_progress'.scene)) =>
             IncorrectSubmit
       /\ (HasHalf(game_progress.scene) /\ ~HasHalf(game_progress'.scene)) =>
             CorrectCommit
      ]_vars

\* the cursor after a correct answer at scene k of level l of session s
NextCursor(s, l, k) ==
    IF k + 1 < ScenesLen(s, l) THEN << s, l, k + 1 >>
    ELSE IF l + 1 < LevelsLen(s) THEN << s, l + 1, 0 >>
    ELSE << s + 1, 0, 0 >>

\* the step is a right answer submitted at the scene the screen shows
CorrectSubmit ==
    /\ screen.name = "post_answer" /\ ~Blocked
    /\ Key(screen.env) = screen.env.scene
    /\ SetState(SubmitCorrect(St))

ReplayIncorrectSubmit ==
    /\ screen.name = "post_answer" /\ ~Blocked
    /\ screen.env.is_replaying
    /\ SetState(SubmitIncorrect(St))

\* C9: a wrong answer on a replay changes no retry counter and no cursor and
\* sends nothing, and the confirmation of its alert enters play_scene with
\* the same session, level and scene index.
C9_ReplayIncorrect ==
    [][/\ ReplayIncorrectSubmit =>
             /\ alert_text'.kind = "wrong_replay"
             /\ retry_count' = retry_count
             /\ game_progress' = game_progress
             /\ inflight' = inflight
             /\ screen' = screen
       /\ (Confirm /\ alert_text.kind = "wrong_replay") =>
             /\ screen'.name = "play_scene"
             /\ Key(screen'.env) = Key(EnvOf(St, alert_listeners[1]))
             /\ retry_count' = retry_count
             /\ game_progress' = game_progress
             /\ Calls(inflight') = Calls(inflight)
      ]_vars

\* a wrong answer given on a replay has raised its alert
C9_Witness ==
    /\ alert_text.kind = "wrong_replay"
    /\ screen.name = "post_answer" /\ screen.env.is_replaying
    /\ screen.time = 0

\* the step is the confirmation of a right answer given on a replay
ReplayCorrectConfirm ==
    /\ Confirm
    /\ alert_listeners[1].kind = "commit"
    /\ EnvOf(St, alert_listeners[1]).is_replaying

\* C10: a correct submit on a replay and the confirmation of its alert leave
\* the cursor as it is and send nothing; the confirmation shows the session
\* map when the advanced indices are level 0 and scene 0, else the level map
\* of the session when the scene index is 0, else the next scene.
C10_ReplayCorrect ==
    [][/\ (CorrectSubmit /\ screen.env.is_replaying) =>
             /\ game_progress' = game_progress
             /\ inflight' = inflight
             /\ retry_count' = retry_count
       /\ ReplayCorrectConfirm =>
             LET env == EnvOf(St, alert_listeners[1])
             IN  /\ game_progress' = game_progress
                 /\ Calls(inflight') = Calls(inflight)
                 /\ IF env.level_id = 0 /\ env.scene_id = 0
                    THEN screen'.name = "pick_session"
                    ELSE IF env.scene_id = 0
                    THEN /\ screen'.name = "pick_level"
                         /\ screen'.env.session_id = env.session_id
                    ELSE /\ screen'.name = "play_scene"
                         /\ Key(screen'.env) = Key(env)
      ]_vars

\* the first scene of a replayed level was answered: its second scene is
\* shown as a replay, the cursor is where it was and nothing is in flight
C10_Witness ==
    /\ screen.name = "play_scene"
    /\ screen.env.is_replaying /\ screen.env.scene_id = 1
    /\ game_progress = [session |-> 1, level |-> 0, scene |-> 0]
    /\ inflight = << >>

\* the (session, level) lies strictly behind the cursor
Behind(s, l) == game_progress.session > s \/ game_progress.level > l

\* the step is a click on the marker i of a level behind the cursor
ReplayEntry(i) ==
    /\ screen.name = "pick_level" /\ ~Blocked
    /\ i \in screen.markers
    /\ Behind(screen.env.session_id, i)
    /\ SetState(read_paper(St, screen.env.session_id, i, NoReadTime))

\* the screen belongs to the flow of a level that is played again
InReplayFlow ==
    \/ /\ screen.name \in {"read_paper", "prompt", "select_object"}
       /\ Behind(screen.env.session_id, screen.env.level_id)
    \/ /\ screen.name \in {"play_scene", "post_answer"}
       /\ screen.env.is_replaying

\* C11: the entry into read_paper of a level strictly behind the cursor, and
\* every step taken while the screens of that level's flow are shown, sends
\* no persistence call and leaves the cursor as it is.
C11_ReplayDoesNotPersist ==
    [][((\E i \in screen.markers : ReplayEntry(i)) \/ InReplayFlow) =>
          /\ game_progress' = game_progress
          /\ Len(inflight') <= Len(inflight)
      ]_vars

\* the director without its j-th call in flight
Settled(j) == [St EXCEPT !.inflight = RemoveAt(@, j)]

\* the step is the reply, with value, to the j-th call in flight, a commit
CommitReply(j, value) ==
    /\ j \in 1..Len(inflight)
    /\ inflight[j].kind = "commit"
    /\ SetState(Reply(Settled(j), inflight[j], value))

\* the handler's indices are those the call committed: one advance from the
\* scene play_scene was entered with
Landed(call) ==
    LET env == EnvOf(St, call)
    IN  /\ Key(env) = NextCursor(env.scene[1], env.scene[2], env.scene[3])
        /\ env.session_id = call.progress.session
        /\ env.level_id = call.progress.level
        /\ Whole(env.scene_id) = call.progress.scene

BoundaryText(s, l, k) ==
    IF k + 1 < ScenesLen(s, l) THEN Text("scene_complete")
    ELSE IF l + 1 < LevelsLen(s) THEN Text("level_complete")
    ELSE Text("chapter_complete")

\* C13: the message shown for a correct answer is the chapter-complete one
\* when the advance crosses the session boundary, the level-complete one when
\* it crosses the level boundary only, and the scene-complete one otherwise.
C13_CongratsByBoundary ==
    [][CorrectSubmit =>
          /\ alert_display'
          /\ alert_text' =
                 BoundaryText(screen.env.session_id, screen.env.level_id,
                              screen.env.scene_id)
      ]_vars

\* the last scene of session 0 was answered on a first play and the
\* chapter-complete message is shown
C13_Witness ==
    /\ alert_display
    /\ alert_text = Text("chapter_complete")
    /\ alert_listeners = << CommitCall(TRUE) >>
    /\ screen.name = "post_answer"
    /\ ~screen.env.is_replaying
    /\ screen.env.scene = << 0, 1, 2 >>
    /\ Key(screen.env) = << 1, 0, 0 >>

\* the step puts the chapter-complete message on the page
ChapterCompleteShown ==
    /\ alert_text # Text("chapter_complete")
    /\ alert_text' = Text("chapter_complete")

\* C14: the chapter-complete message is put on the page only by the reply,
\* with a value other than 0, to the commit of a clear that was not a replay;
\* it is never shown for a replayed clear or for a commit answered with 0.
C14_ChapterCompleteOnlyAfterCommit ==
    [][ChapterCompleteShown =>
          /\ \E j \in 1..Len(inflight) : CommitReply(j, 1)
          /\ ~screen.env.is_replaying
      ]_vars

\* the step is a click on the confirm button of the reading screen
ReadConfirmClick ==
    /\ screen.name = "read_paper" /\ ~Blocked
    /\ SetState(ReadConfirm(St))

\* C15: a click on read_paper's confirm button leads to
\* prompt_object_selection only if, at that click, the reader has reached the
\* end and the timer has finished; if either fails, a corrective alert is
\* shown, the reading screen stays, and the cursor, the retry counters and
\* the persistence calls are untouched.
C15_ReadConfirmGate ==
    [][ReadConfirmClick =>
          /\ screen'.name = "prompt" => (screen.reached /\ screen.finished)
          /\ (screen.reached /\ screen.finished) =>
                SetState(prompt_object_selection(St, screen.env.session_id,
                                                 screen.env.level_id))
          /\ ~(screen.reached /\ screen.finished) =>
                /\ alert_display'
                /\ alert_text' =
                       IF ~screen.reached THEN Text("read_to_the_end")
                       ELSE [kind |-> "read_longer", n |-> screen.time]
                /\ alert_listeners' = << NoCall >>
                /\ screen' = screen
                /\ game_progress' = game_progress
                /\ retry_count' = retry_count
                /\ inflight' = inflight
      ]_vars

\* the player read a first-time paper to the end and clicked confirm before
\* the 60 seconds were over
C15_Witness ==
    /\ screen.name = "read_paper"
    /\ screen.reached /\ ~screen.finished
    /\ alert_display
    /\ alert_text = [kind |-> "read_longer", n |-> FirstReadTime]

\* the step is a click on the marker of level i that shows its reading screen
PaperEntry(i) ==
    /\ screen.name = "pick_level" /\ ~Blocked
    /\ i \in screen.markers
    /\ SetState(read_paper(St, screen.env.session_id, i, NoReadTime))
    /\ screen'.name = "read_paper"

\* the step confirms the alert that sends the player back to the paper, and
\* the reading screen is shown
ForcedPaperEntry ==
    /\ Confirm
    /\ alert_listeners[1].kind = "read_paper"
    /\ screen'.name = "read_paper" /\ screen' # screen

\* C16: the reading timer is set to 20 seconds when the level shown lies
\* strictly behind the cursor, the cursor being the one left by the overflow
\* branch, to 60 seconds when it is the cursor's level, and to read_time when
\* read_paper is called with one.
C16_ReadingTime ==
    [][/\ \A i \in screen.markers :
            PaperEntry(i) =>
                screen'.time =
                    IF \/ game_progress'.session > screen'.env.session_id
                       \/ game_progress'.level > screen'.env.level_id
                    THEN 20 ELSE 60
       /\ ForcedPaperEntry => screen'.time = ForcedReadTime
      ]_vars

\* the paper of a level behind the cursor is shown with 20 seconds
C16_Witness ==
    /\ screen.name = "read_paper"
    /\ screen.time = 20
    /\ ~screen.reached /\ ~screen.finished
    /\ Behind(screen.env.session_id, screen.env.level_id)

\* the subsets of the slots select_object draws
SlotSets == SUBSET (0..(NumSlots - 1))

\* C17: on the object selection screen, the confirm button passes to the
\* scenes exactly when the set of selected slots equals the level's correct
\* set; every other subset of the 9 slots gets the alert for a wrong
\* selection.
C17_SelectionIffEqual ==
    (screen.name = "select_object" /\ ~Blocked /\ ~is_alert) =>
        \A selected \in SlotSets :
            LET correct == LevelCorrect(screen.env.session_id, screen.env.level_id)
                after == SelectConfirm(St, selected)
            IN  /\ SelectionCorrect(selected, correct) <=> (selected = correct)
                /\ selected # correct =>
                      /\ after.alert_display
                      /\ after.alert_text = Text("wrong_selection")
                      /\ after.screen = screen
                /\ selected = correct =>
                      /\ ~after.alert_display
                      /\ \E scene_id \in {0, game_progress.scene, screen.gp.scene} :
                            after = play_scene(St, screen.env.session_id,
                                               screen.env.level_id, scene_id)

\* a selection that misses one object of the correct set was confirmed
C17_Witness ==
    /\ screen.name = "select_object"
    /\ alert_display
    /\ alert_text = Text("wrong_selection")
    /\ alert_listeners =
           << PromptCall(screen.env.session_id, screen.env.level_id) >>

\* the step confirms a selection that is not the level's correct set
WrongSelect ==
    /\ screen.name = "select_object" /\ ~Blocked
    /\ \E selected \in Selections :
          /\ selected # LevelCorrect(screen.env.session_id, screen.env.level_id)
          /\ SetState(SelectConfirm(St, selected))

\* the step confirms the alert for a wrong selection
WrongSelectConfirm ==
    /\ Confirm
    /\ screen.name = "select_object"
    /\ alert_text = Text("wrong_selection")

\* the step confirms the prompt that precedes the object selection
PromptConfirm ==
    /\ Confirm
    /\ screen.name = "prompt"
    /\ alert_text = Text("prompt")

\* the cursor, the retry counters and the persistence calls are left alone
SelectionFrame ==
    /\ game_progress' = game_progress
    /\ retry_count' = retry_count
    /\ inflight' = inflight

\* C18: a selection that does not match shows the alert for a wrong
\* selection; confirming it shows the prompt and then the object selection of
\* the same session and level again; none of these steps, however often the
\* player goes round, changes a retry counter, makes a persistence call or
\* changes the cursor.
C18_WrongSelectionLoop ==
    [][/\ WrongSelect =>
             /\ alert_display'
             /\ alert_text' = Text("wrong_selection")
             /\ alert_listeners' =
                    << PromptCall(screen.env.session_id, screen.env.level_id) >>
             /\ screen' = screen
             /\ SelectionFrame
       /\ WrongSelectConfirm =>
             /\ screen'.name = "prompt"
             /\ screen'.env = screen.env
             /\ alert_display'
             /\ alert_text' = Text("prompt")
             /\ alert_listeners' =
                    << SelectCall(screen.env.session_id, screen.env.level_id) >>
             /\ SelectionFrame
       /\ PromptConfirm =>
             /\ screen'.name = "select_object"
             /\ screen'.env = screen.env
             /\ ~alert_display'
             /\ SelectionFrame
      ]_vars

\* the alert for a wrong selection is open: confirming it and then the prompt
\* leads back to the selection screen it lies over
C18_Witness ==
    /\ screen.name = "select_object"
    /\ alert_display
    /\ alert_text = Text("wrong_selection")
    /\ Len(alert_listeners) = 1
    /\ LET prompted == RunListeners(St, 1)
           again == RunListeners(prompted, 1)
       IN  /\ prompted.screen.name = "prompt"
           /\ again.screen.name = "select_object"
           /\ again.screen.env = screen.env
           /\ again.game_progress = game_progress
           /\ again.inflight = inflight

\* the step draws the submit button
SubmitRevealed == screen.name # "post_answer" /\ screen'.name = "post_answer"

\* the step shows the dialog of a scene
SceneEntry == screen'.name = "play_scene" /\ screen' # screen

\* C19: the submit button is drawn only by a click on the canvas made while
\* the scene is a replay or while its attempt timer has finished; the timer
\* of a scene is 10 seconds when the cursor's scene carries no .5 marker, 5
\* seconds when it carries one, and a replay has no timer.
C19_SubmitGate ==
    [][/\ SubmitRevealed =>
             /\ click_listener.active /\ ~Blocked
             /\ SetState(Reveal(St))
             /\ \/ click_listener.env.is_replaying
                \/ click_listener.time # 0 /\ click_listener.finished
             /\ screen'.env = click_listener.env
       /\ SceneEntry =>
             LET replay == \/ game_progress'.session > screen'.env.session_id
                           \/ game_progress'.level > screen'.env.level_id
             IN  /\ click_listener'.active
                 /\ ~click_listener'.finished
                 /\ click_listener'.env = screen'.env
                 /\ screen'.env.is_replaying = replay
                 /\ click_listener'.time =
                        IF replay THEN 0
                        ELSE IF HasHalf(game_progress'.scene) THEN 5 ELSE 10
      ]_vars

\* after a failed attempt the submit button of the scene was revealed once
\* its 5 seconds were over
C19_Witness ==
    /\ screen.name = "post_answer"
    /\ ~screen.env.is_replaying
    /\ screen.time = 5 /\ screen.finished
    /\ HasHalf(game_progress.scene)
    /\ ~click_listener.active

\* the step is read_paper(s, l, read_time), called from a level marker or
\* from the alert after the third failure, and it passes validation
ReadPaperCall(s, l, read_time) ==
    /\ \/ /\ screen.name = "pick_level" /\ ~Blocked
          /\ l \in screen.markers
          /\ s = screen.env.session_id
          /\ read_time = NoReadTime
       \/ /\ Confirm
          /\ alert_listeners[1].kind = "read_paper"
          /\ s = EnvOf(St, alert_listeners[1]).session_id
          /\ l = EnvOf(St, alert_listeners[1]).level_id
          /\ read_time = ForcedReadTime
    /\ validate_progress(game_progress, s, l)
    /\ HasLevel(St, s, l)
    /\ SetState(read_paper(IF alert_display
                           THEN [St EXCEPT !.alert_listeners = << >>,
                                           !.alert_display = FALSE,
                                           !.is_alert = FALSE,
                                           !.alert_text = NoText]
                           ELSE St,
                           s, l, read_time))

\* the level after (s, l), with scene 0
NextLevel(s, l) ==
    IF l + 1 < LevelsLen(s)
    THEN [session |-> s, level |-> l + 1, scene |-> 0]
    ELSE [session |-> s + 1, level |-> 0, scene |-> 0]

\* C20: when read_paper(s, l) passes validation and the cursor's scene index
\* is at least the scene count of level l, the cursor becomes (s, l+1, 0), or
\* (s+1, 0, 0) when l is the last level of s, a persistence call carrying that
\* cursor and an empty summary is sent at once, and the reading screen of
\* that next level is shown; when the scene index is below the count, the
\* cursor is unchanged and no call is sent.
C20_ReadPaperOverflow ==
    [][\A s \in SessionIds, l \in LevelIds, read_time \in {NoReadTime, ForcedReadTime} :
          ReadPaperCall(s, l, read_time) =>
              IF Floor(game_progress.scene) >= ScenesLen(s, l)
              THEN /\ game_progress' = NextLevel(s, l)
                   /\ Len(inflight') = Len(inflight) + 1
                   /\ inflight'[Len(inflight')].kind = "overflow"
                   /\ inflight'[Len(inflight')].progress = NextLevel(s, l)
                   /\ screen'.name = "read_paper"
                   /\ screen'.env.session_id = NextLevel(s, l).session
                   /\ screen'.env.level_id = NextLevel(s, l).level
              ELSE /\ game_progress' = game_progress
                   /\ inflight' = inflight
      ]_vars

\* the markers pick_session can draw
SessionMarkers == 0..(NumSessions - 1)

\* the step starts a content resolution for session i
ResolutionStarts(i) ==
    /\ Len(resolving') = Len(resolving) + 1
    /\ resolving'[Len(resolving')] = i

\* C21: once the content of session i is stored in game_content, it stays
\* stored, no step starts a content resolution for i, and a click on the
\* marker of i is pick_level(i) at once.
C21_ResolvedOnce ==
    /\ [][\A i \in SessionMarkers :
             i \in game_content =>
                 /\ i \in game_content'
                 /\ ~ResolutionStarts(i)
        ]_vars
    /\ [](\A i \in SessionMarkers :
             (i \in game_content /\ screen.name = "pick_session" /\ i \in screen.markers) =>
                 SessionMarkerClick(St, i) = pick_level(St, i))

\* the session map is shown again after the content of session 0 was stored:
\* a click on its marker shows the level map and starts no resolution
C21_Witness ==
    /\ screen.name = "pick_session" /\ ~Blocked
    /\ 0 \in game_content /\ 0 \in screen.markers
    /\ resolving = << >>
    /\ SessionMarkerClick(St, 0).screen.name = "pick_level"
    /\ SessionMarkerClick(St, 0).resolving = << >>

\* C22: no handler reads content that does not exist: pick_level, read_paper,
\* select_object and play_scene never go on with a session whose content is
\* not stored or that lies past the last session, nor with a level or scene
\* outside the lists of the course, so no handler ends in a TypeError.
C22_NoMissingContent == ~threw

\* a call started from the scene screen that is shown has not been answered
CallOfScreenInFlight ==
    /\ screen.name = "post_answer"
    /\ \E j \in 1..Len(inflight) :
          inflight[j].live /\ inflight[j].kind \in {"commit", "fail"}

\* C23: while the persistence call started by a submit on the scene screen
\* is in flight, no further activation of the submit control on that screen
\* issues another persistence call.
C23_NoSecondCall ==
    [][CallOfScreenInFlight => Len(inflight') <= Len(inflight)]_vars

\* the step is the reply to the failure that uses up the last attempt
LastFailReply(j) ==
    /\ FailReply(j)
    /\ inflight[j].retry + 1 = retry_limit

\* C24: whatever the player did between the submit and the reply (question
\* alert, menu, about page), the reply to the failure that uses up the retry
\* limit shows the alert that sends the player back to the paper, with
\* read_paper as its callback, so that no further submit on the scene is
\* evaluated before the paper was read again.
C24_ExhaustedGoesToPaper ==
    [][\A j \in 1..Len(inflight) :
          LastFailReply(j) =>
              /\ alert_display'
              /\ alert_text' = Text("back_to_paper")
              /\ Len(alert_listeners') >= 1
              /\ alert_listeners'[Len(alert_listeners')].kind = "read_paper"
      ]_vars

\* the step draws the session map, or the level map
SessionMapShown == screen' # screen /\ screen'.name = "pick_session"
LevelMapShown == screen' # screen /\ screen'.name = "pick_level"

\* C25: pick_session draws a clickable marker for exactly the sessions with
\* index at most the cursor's session; pick_level(s) draws a clickable marker
\* for exactly the levels i of s with validate_progress(s, i), which are all
\* levels of s when the cursor's session is past s and the levels up to the
\* cursor's level when it is s; the marker of the cursor's level is the only
\* one flashing, and none flashes for a completed session.
C25_Markers ==
    [][/\ SessionMapShown =>
             screen'.markers =
                 {i \in SessionMarkers : i <= game_progress'.session}
       /\ LevelMapShown =>
             LET s == screen'.env.session_id
                 gp == game_progress'
             IN  /\ screen'.markers =
                        {i \in 0..(LevelsLen(s) - 1) : validate_progress(gp, s, i)}
                 /\ gp.session > s =>
                        /\ screen'.markers = 0..(LevelsLen(s) - 1)
                        /\ screen'.flashing = {}
                 /\ gp.session = s =>
                        /\ screen'.markers = 0..gp.level
                        /\ screen'.flashing = {gp.level}
      ]_vars

\* the step confirms the level's correct set on the object selection screen
\* and the first dialog is shown
SceneFromSelection ==
    /\ screen.name = "select_object" /\ ~Blocked
    /\ SetState(SelectConfirm(St, LevelCorrect(screen.env.session_id,
                                               screen.env.level_id)))
    /\ screen'.name = "play_scene"

\* C26: a scene entered in non-replay mode is the scene of the cursor, the
\* integer part of the cursor's scene value; select_object enters scene 0 on
\* a replay and that scene otherwise; the reply to a commit enters play_scene
\* at the scene that was committed.
C26_SceneFollowsCursor ==
    [][/\ (SceneEntry /\ ~screen'.env.is_replaying) =>
             /\ screen'.env.scene_id = Floor(game_progress'.scene)
             /\ screen'.env.session_id = game_progress'.session
             /\ screen'.env.level_id = game_progress'.level
       /\ SceneFromSelection =>
             /\ screen'.env.session_id = screen.env.session_id
             /\ screen'.env.level_id = screen.env.level_id
             /\ screen'.env.scene_id =
                    IF Behind(screen.env.session_id, screen.env.level_id)
                    THEN 0 ELSE Floor(game_progress.scene)
       /\ \A j \in 1..Len(inflight), value \in {0, 1} :
             (/\ CommitReply(j, value) /\ Landed(inflight[j])
              /\ inflight[j].progress.scene # 0
              /\ SceneEntry) =>
                 Key(screen'.env) =
                     << inflight[j].progress.session, inflight[j].progress.level,
                        Floor(inflight[j].progress.scene) >>
      ]_vars

\* the step issues a persistence call
CallIssued == Len(inflight') > Len(inflight)

\* C27: every change of the cursor comes with a persistence call that
\* carries the new cursor, and every persistence call carries the cursor as
\* the step that issues it leaves it: the cursor is assigned when the call is
\* issued, not when it completes, so that it always equals the cursor of the
\* call issued last.
C27_CursorPairedWithCall ==
    [][/\ game_progress' # game_progress => CallIssued
       /\ CallIssued =>
             /\ Len(inflight') = Len(inflight) + 1
             /\ inflight'[Len(inflight')].progress = game_progress'
       /\ ~CallIssued => game_progress' = game_progress
      ]_vars

\* a commit is in flight: the cursor already is the one it carries, past the
\* scene that was answered
C27_Witness ==
    /\ Len(inflight) = 1
    /\ inflight[1].kind = "commit"
    /\ inflight[1].progress = game_progress
    /\ game_progress = [session |-> 0, level |-> 1, scene |-> 0]
    /\ screen.name = "post_answer"
    /\ screen.env.scene = << 0, 0, 0 >>

\* the step is a click on the confirm button of the alert that is shown
AlertConfirmed ==
    /\ alert_display
    /\ SetState(RunListeners(St, Len(alert_listeners)))

\* C28: at most one alert is active at a time: the confirm button never
\* carries more than one callback, and while an alert is shown no step other
\* than its confirmation replaces its message or registers a callback; the
\* confirmation clears is_alert before the callback runs, so an alert opened
\* by the callback is shown.
C28_OneAlert ==
    /\ [](Len(alert_listeners) <= 1)
    /\ [][(alert_display /\ ~AlertConfirmed) =>
             /\ alert_text' = alert_text
             /\ alert_display'
             /\ Len(alert_listeners') = Len(alert_listeners)
             /\ \A k \in 1..Len(alert_listeners) :
                   /\ alert_listeners'[k].kind = alert_listeners[k].kind
                   /\ EnvNext(alert_listeners'[k]) = EnvOf(St, alert_listeners[k])
        ]_vars
    /\ [][(AlertConfirmed /\ alert_listeners[1].kind \in {"prompt", "select_object", "null"}) =>
             LET call == alert_listeners[1]
                 closed == [St EXCEPT !.alert_listeners = << >>,
                                      !.alert_display = FALSE,
                                      !.is_alert = FALSE,
                                      !.alert_text = NoText]
             IN  SetState(RunCallback(closed, call))
        ]_vars

\* C29: in no reachable state is the menu overlay open together with an alert
\* or an about page, whenever a persistence call completes.
C29_MenuExcludesModals ==
    ~(is_showing_menu /\ (alert_display \/ about_modals > 0))

\* the step is the return of the content resolution of session i
ResolutionReturns(i) ==
    \E j \in 1..Len(resolving) :
        /\ resolving[j] = i
        /\ SetState(pick_level([St EXCEPT !.game_content = @ \cup {i},
                                          !.resolving = RemoveAt(@, j)], i))

\* C30: no session index has two content resolutions in flight, so its cache
\* entry is written once, and the pick_level of a returning resolution fires
\* only over the session map it was started from, never over a screen the
\* player has moved to in the meantime.
C30_ResolutionInFlight ==
    /\ [](\A j, k \in 1..Len(resolving) : resolving[j] = resolving[k] => j = k)
    /\ [][\A i \in 0..(NumSessions - 1) :
              ResolutionReturns(i) => screen.name = "pick_session"]_vars

\* the cursor as the indices of a scene
CursorKey(gp) == << gp.session, gp.level, Floor(gp.scene) >>

\* C31: under fairness a player who starts at cursor (0, 0, 0) and goes
\* forward eventually has progress.session equal to the number of sessions,
\* and every change of the cursor is a step to the next scene of the course.
C31_CourseCompleted ==
    /\ <>(game_progress.session = NumSessions)
    /\ [][game_progress' # game_progress =>
              /\ OnCourse([session_id |-> game_progress.session,
                           level_id |-> game_progress.level,
                           scene_id |-> Floor(game_progress.scene)])
              /\ CursorKey(game_progress') =
                    NextCursor(game_progress.session, game_progress.level,
                               Floor(game_progress.scene))
         ]_vars

\* the entries the event processor has called a listener for
HandledIds == {handled[i].id : i \in 1..Len(handled)}

\* the entries in the pending list
PendingIds == {event_list[k].id : k \in 1..Len(event_list)}

\* the step is a processing pass
PassStep == SetEvents(event_processor(EvState))

====
